---- MODULE Spec2Model ----
(***************************************************************************)
(* Model of the c-ares doubly linked list, src/lib/ares__llist.c.          *)
(*                                                                         *)
(* Nodes are named 1, 2, ... in the order ares_malloc hands them out; 0 is *)
(* NULL.  A name stands for one allocation, so a pointer to a freed node   *)
(* stays distinguishable from a pointer to the node that may later occupy  *)
(* the same address.  The single list object has address LIST.             *)
(*                                                                         *)
(* Dereferencing a pointer to a freed node is undefined.  The outcomes     *)
(* modelled are: the address is in use again by a node allocated after the *)
(* free, and the access hits that node; the address is unused, a write is  *)
(* lost and a read yields an arbitrary value; the process crashes.  The    *)
(* model follows the program up to and including its first such access;    *)
(* what the program does after it is not constrained by the language and   *)
(* is not explored, but for one more iteration of ares__llist_destroy on a *)
(* freed head.  Callers only pass node handles they got from an insertion  *)
(* and have not removed since.                                             *)
(*                                                                         *)
(* Spec is the whole interface, SpecCore the interface without the         *)
(* read-only accessors, SpecFresh a caller that links and removes nodes    *)
(* only, with a value of its own for every node, over longer runs.         *)
(***************************************************************************)
EXTENDS Integers, Sequences, FiniteSets, TLC

\* ---------------------------------------------------------------- bounds
MaxNodes == 3        \* nodes allocated over a run of the whole interface
MaxVal   == 2        \* distinct non-null user values
MaxDestr == 1        \* distinct destructor callbacks
MaxFresh == 5        \* nodes allocated over a run of SpecFresh

NULL == 0
LIST == 1            \* address of the one list object
Addr == 1..MaxFresh  \* the node names
Ptr  == 0..MaxFresh
Vals == 1..MaxVal
Data == 0..MaxVal
Destructors == 1..MaxDestr

\* ares__llist_insert_type_t
ARES__LLIST_INSERT_HEAD   == "HEAD"
ARES__LLIST_INSERT_TAIL   == "TAIL"
ARES__LLIST_INSERT_BEFORE == "BEFORE"

\* struct ares__llist_node
ZeroNode  == [data |-> NULL, prev |-> NULL, next |-> NULL, parent |-> NULL]

\* struct ares__llist after memset(0)
ZeroList == [head |-> NULL, tail |-> NULL, destruct |-> NULL, cnt |-> 0]

VARIABLES
  list,     \* the fields of the list object: head, tail, destruct, cnt
  nodes,    \* Addr -> node cell (ZeroNode for a node that is not allocated)
  alloc,    \* the nodes currently allocated
  nalloc,   \* how many nodes ares_malloc has handed out so far
  freedAt,  \* Addr -> for a freed node, the name the next allocation got
  pc,       \* "none" (no list yet), "ready", "destroying", "freed", "crashed",
            \* "astray" (ares__llist_destroy has run on a freed node)
  ub,       \* TRUE once a pointer to a freed node has been dereferenced
  op,       \* the call that has just returned: its name and arguments, whether
            \* it reached ares_malloc, and the call it followed directly
  ret,      \* what that call returned
  calls,    \* the destructor invocations that call made, in order
  dpre      \* what ares__llist_destroy found when it was entered

vars == <<list, nodes, alloc, nalloc, freedAt, pc, ub, op, ret, calls, dpre>>

\* The heap as one value, so that the C functions are operators over it; its
\* ub field records whether the call being executed has touched freed memory,
\* its mal field whether the call reached ares_malloc ("none") and, if so,
\* whether it got a node ("ok") or NULL ("fail").
Heap == [head |-> list.head, tail |-> list.tail, destruct |-> list.destruct,
         cnt |-> list.cnt, ns |-> nodes, al |-> alloc, ub |-> FALSE,
         calls |-> <<>>, ret |-> NULL, mal |-> "none"]

\* node->next = v / node->prev = v through pointer n.
WrNext(M, n, v) ==
  IF n \in M.al THEN [M EXCEPT !.ns[n].next = v] ELSE [M EXCEPT !.ub = TRUE]

WrPrev(M, n, v) ==
  IF n \in M.al THEN [M EXCEPT !.ns[n].prev = v] ELSE [M EXCEPT !.ub = TRUE]

\* *n as read by the code: the cell, or the arbitrary content g when n is freed.
Rd(M, n, g) == IF n \in M.al THEN M.ns[n] ELSE g

\* ---------------------------------------------------------------- list walk
\* The addresses met by starting at `from` and following `field` until NULL,
\* giving up after `fuel` nodes (a corrupted chain may cycle).
RECURSIVE Walk(_, _, _, _)
Walk(ns, from, field, fuel) ==
  IF from = NULL \/ fuel = 0 THEN <<>>
  ELSE <<from>> \o Walk(ns, ns[from][field], field, fuel - 1)

Fwd == Walk(nodes, list.head, "next", MaxFresh + 1)
Bwd == Walk(nodes, list.tail, "prev", MaxFresh + 1)

Reverse(s) == [i \in 1..Len(s) |-> s[Len(s) + 1 - i]]
ValsOf(ns, s) == [i \in 1..Len(s) |-> ns[s[i]].data]

\* ---------------------------------------------------------------- the code
\* The switch of ares__llist_insert_at and what follows it: node m, zeroed
\* and holding its value, is linked in by insert type t.
LinkNode(M1, t, at, m, g) ==
  LET M2 == CASE t = ARES__LLIST_INSERT_HEAD ->
                   LET a == [M1 EXCEPT !.ns[m].next = M1.head]
                       b == [a EXCEPT !.ns[m].prev = NULL]
                       c == IF b.head # NULL THEN WrPrev(b, b.head, m) ELSE b
                   IN  [c EXCEPT !.head = m]
              [] t = ARES__LLIST_INSERT_TAIL ->
                   LET a == [M1 EXCEPT !.ns[m].next = NULL]
                       b == [a EXCEPT !.ns[m].prev = a.tail]
                       c == IF b.tail # NULL THEN WrNext(b, b.tail, m) ELSE b
                   IN  [c EXCEPT !.tail = m]
              [] t = ARES__LLIST_INSERT_BEFORE ->
                   LET a == [M1 EXCEPT !.ns[m].next = at]
                       b == [a EXCEPT !.ns[m].prev = Rd(a, at, g).prev,
                                      !.ub = @ \/ at \notin a.al]
                   IN  WrPrev(b, at, m)
      M3 == IF M2.tail = NULL THEN [M2 EXCEPT !.tail = m] ELSE M2
      M4 == IF M3.head = NULL THEN [M3 EXCEPT !.head = m] ELSE M3
  IN  [M4 EXCEPT !.cnt = @ + 1, !.ret = m]

\* ares_malloc has returned m, not NULL: memset, node->data, node->parent.
NewNode(M, lst, val, m) ==
  [M EXCEPT !.al = @ \cup {m}, !.mal = "ok",
            !.ns[m] = [data |-> val, prev |-> NULL, next |-> NULL,
                       parent |-> lst]]

\* ares__llist_insert_at counting the node before it knows it has one.
ares__llist_insert_at_count_first(M, lst, type, at, val, m, g) ==
  IF lst = NULL \/ val = NULL THEN [M EXCEPT !.ret = NULL]
  ELSE IF m = NULL
       THEN [M EXCEPT !.ret = NULL, !.mal = "fail", !.cnt = @ + 1]
  ELSE
    LET M1 == NewNode(M, lst, val, m)
        t  == IF type = ARES__LLIST_INSERT_BEFORE /\ (at = M1.head \/ at = NULL)
              THEN ARES__LLIST_INSERT_HEAD ELSE type
    IN  LinkNode(M1, t, at, m, g)

\* ares__llist_insert_at without the val == NULL check.
ares__llist_insert_at_null_val(M, lst, type, at, val, m, g) ==
  IF lst = NULL THEN [M EXCEPT !.ret = NULL]
  ELSE IF m = NULL THEN [M EXCEPT !.ret = NULL, !.mal = "fail"]
  ELSE
    LET M1 == NewNode(M, lst, val, m)
        t  == IF type = ARES__LLIST_INSERT_BEFORE /\ (at = M1.head \/ at = NULL)
              THEN ARES__LLIST_INSERT_HEAD ELSE type
    IN  LinkNode(M1, t, at, m, g)

\* ares__llist_insert_at redirecting "before" to the head case only for a
\* NULL target, not for the head.
ares__llist_insert_at_no_redirect(M, lst, type, at, val, m, g) ==
  IF lst = NULL \/ val = NULL THEN [M EXCEPT !.ret = NULL]
  ELSE IF m = NULL THEN [M EXCEPT !.ret = NULL, !.mal = "fail"]
  ELSE
    LET M1 == NewNode(M, lst, val, m)
        t  == IF type = ARES__LLIST_INSERT_BEFORE /\ at = NULL
              THEN ARES__LLIST_INSERT_HEAD ELSE type
    IN  LinkNode(M1, t, at, m, g)

\* ares__llist_insert_at; m is what ares_malloc returned, g what a read of a
\* freed `at` yields.
ares__llist_insert_at(M, lst, type, at, val, m, g) ==
  IF lst = NULL \/ val = NULL THEN [M EXCEPT !.ret = NULL]
  ELSE IF m = NULL THEN [M EXCEPT !.ret = NULL, !.mal = "fail"]
  ELSE
    LET M1 == NewNode(M, lst, val, m)
        t  == IF type = ARES__LLIST_INSERT_BEFORE /\ (at = M1.head \/ at = NULL)
              THEN ARES__LLIST_INSERT_HEAD ELSE type
    IN  LinkNode(M1, t, at, m, g)

ares__llist_insert_first(M, lst, val, m) ==
  ares__llist_insert_at(M, lst, ARES__LLIST_INSERT_HEAD, NULL, val, m, ZeroNode)

ares__llist_insert_last(M, lst, val, m) ==
  ares__llist_insert_at(M, lst, ARES__LLIST_INSERT_TAIL, NULL, val, m, ZeroNode)

ares__llist_insert_before(M, node, val, m) ==
  IF node = NULL THEN [M EXCEPT !.ret = NULL]
  ELSE ares__llist_insert_at(M, M.ns[node].parent, ARES__LLIST_INSERT_BEFORE,
                             node, val, m, ZeroNode)

ares__llist_insert_after(M, node, val, m, g) ==
  IF node = NULL THEN [M EXCEPT !.ret = NULL]
  ELSE IF M.ns[node].next = NULL
       THEN ares__llist_insert_last(M, M.ns[node].parent, val, m)
       ELSE ares__llist_insert_at(M, M.ns[node].parent,
                                  ARES__LLIST_INSERT_BEFORE, M.ns[node].next,
                                  val, m, g)

\* ares__llist_node_claim without list->cnt--.
ares__llist_node_claim_keep_cnt(M, node) ==
  IF node = NULL THEN [M EXCEPT !.ret = NULL]
  ELSE
    LET val == M.ns[node].data
        M1  == IF M.ns[node].prev # NULL
               THEN WrNext(M, M.ns[node].prev, M.ns[node].next) ELSE M
        M2  == IF M1.ns[node].next # NULL
               THEN WrPrev(M1, M1.ns[node].next, M1.ns[node].prev) ELSE M1
        M3  == IF node = M2.head THEN [M2 EXCEPT !.head = M2.ns[node].next] ELSE M2
        M4  == IF node = M3.tail THEN [M3 EXCEPT !.tail = M3.ns[node].prev] ELSE M3
        M5  == [M4 EXCEPT !.al = @ \ {node}, !.ns[node] = ZeroNode]
    IN  [M5 EXCEPT !.ret = val]

\* ares__llist_node_claim; node is NULL or an allocated node of the list.
ares__llist_node_claim(M, node) ==
  IF node = NULL THEN [M EXCEPT !.ret = NULL]
  ELSE
    LET val == M.ns[node].data
        M1  == IF M.ns[node].prev # NULL
               THEN WrNext(M, M.ns[node].prev, M.ns[node].next) ELSE M
        M2  == IF M1.ns[node].next # NULL
               THEN WrPrev(M1, M1.ns[node].next, M1.ns[node].prev) ELSE M1
        M3  == IF node = M2.head THEN [M2 EXCEPT !.head = M2.ns[node].next] ELSE M2
        M4  == IF node = M3.tail THEN [M3 EXCEPT !.tail = M3.ns[node].prev] ELSE M3
        M5  == [M4 EXCEPT !.al = @ \ {node}, !.ns[node] = ZeroNode]
    IN  [M5 EXCEPT !.cnt = @ - 1, !.ret = val]

\* ares__llist_node_destroy; node->parent is the list.
ares__llist_node_destroy(M, node) ==
  IF node = NULL THEN [M EXCEPT !.ret = NULL]
  ELSE
    LET destruct == M.destruct
        M1       == ares__llist_node_claim(M, node)
        val      == M1.ret
    IN  IF val # NULL /\ destruct # NULL
        THEN [M1 EXCEPT !.calls = Append(@, <<destruct, val>>), !.ret = NULL]
        ELSE [M1 EXCEPT !.ret = NULL]

\* ares__llist_node_replace handing the new value to the destructor.
ares__llist_node_replace_new_val(M, node, val) ==
  IF node = NULL THEN [M EXCEPT !.ret = NULL]
  ELSE
    LET destruct == M.destruct
        M1 == IF destruct # NULL
              THEN [M EXCEPT !.calls = Append(@, <<destruct, val>>)]
              ELSE M
    IN  [M1 EXCEPT !.ns[node].data = val, !.ret = NULL]

\* ares__llist_node_replace; node->parent is the list.
ares__llist_node_replace(M, node, val) ==
  IF node = NULL THEN [M EXCEPT !.ret = NULL]
  ELSE
    LET destruct == M.destruct
        M1 == IF destruct # NULL
              THEN [M EXCEPT !.calls = Append(@, <<destruct, M.ns[node].data>>)]
              ELSE M
    IN  [M1 EXCEPT !.ns[node].data = val, !.ret = NULL]

\* ares__llist_replace_destructor that does not store the destructor.
ares__llist_replace_destructor_keep(M, lst, destruct) == M

\* ares__llist_replace_destructor
ares__llist_replace_destructor(M, lst, destruct) ==
  IF lst = NULL THEN M ELSE [M EXCEPT !.destruct = destruct]

\* The read-only accessors.
ares__llist_node_first(M, lst) == IF lst = NULL THEN NULL ELSE M.head
ares__llist_node_last(M, lst)  == IF lst = NULL THEN NULL ELSE M.tail
ares__llist_node_next(M, node) == IF node = NULL THEN NULL ELSE M.ns[node].next
ares__llist_node_prev(M, node) == IF node = NULL THEN NULL ELSE M.ns[node].prev
ares__llist_node_val(M, node)  == IF node = NULL THEN NULL ELSE M.ns[node].data
ares__llist_len(M, lst)        == IF lst = NULL THEN 0 ELSE M.cnt
ares__llist_node_parent(M, node) ==
  IF node = NULL THEN NULL ELSE M.ns[node].parent
ares__llist_first_val(M, lst) ==
  ares__llist_node_val(M, ares__llist_node_first(M, lst))
ares__llist_last_val(M, lst) ==
  ares__llist_node_val(M, ares__llist_node_last(M, lst))


\* ---------------------------------------------------------------- actions
\* What ares_malloc(sizeof(node)) can return.
Malloc == IF nalloc < MaxNodes THEN {NULL, nalloc + 1} ELSE {NULL}

\* p points to a freed node.
Stale(p) == p # NULL /\ p \notin alloc

\* The ways the addresses of the freed nodes S can be in use again among the
\* allocated nodes al: r[x] is the node now at the address of x, or NULL.  A
\* node can have taken the address of x only if it was allocated after x was
\* freed, and two freed nodes had the same address only if one was freed
\* before the other was allocated.
Aliasings(S, al) ==
  {r \in [S -> {NULL} \cup al] :
     /\ \A x \in S : r[x] # NULL => r[x] >= freedAt[x]
     /\ \A x, y \in S : (x # y /\ r[x] # NULL /\ r[x] = r[y])
                           => (freedAt[x] <= y \/ freedAt[y] <= x)}

\* The heap with every pointer to a freed node x written as the node r[x]
\* that has its address.
Resolve(M, r) ==
  LET Re(p) == IF p \in DOMAIN r /\ r[p] # NULL THEN r[p] ELSE p
  IN  [M EXCEPT !.ns = [a \in Addr |-> [M.ns[a] EXCEPT !.prev = Re(@),
                                                        !.next = Re(@)]],
                !.head = Re(@), !.tail = Re(@)]

\* What a read of the prev field of a freed cell can yield.
Garbage(S) == IF S = {} THEN {ZeroNode}
              ELSE {[ZeroNode EXCEPT !.prev = p] : p \in Ptr}

\* The call whose result the caller passes straight on to the call it is
\* making, "idle" when it passes none.
Follows == IF pc = "ready" THEN op.name ELSE "idle"

Commit(M, name, a, v) ==
  /\ list'  = [head |-> M.head, tail |-> M.tail, destruct |-> M.destruct,
               cnt |-> M.cnt]
  /\ nodes' = M.ns
  /\ alloc' = M.al
  /\ nalloc' = IF M.al \ alloc # {} THEN nalloc + 1 ELSE nalloc
  /\ freedAt' = [x \in Addr |-> IF x \in alloc \ M.al THEN nalloc + 1
                                ELSE freedAt[x]]
  /\ ub'    = (ub \/ M.ub)
  /\ ret'   = M.ret
  /\ calls' = M.calls
  /\ op'    = [name |-> name, arg |-> a, val |-> v, malloc |-> M.mal,
               after |-> Follows]

\* The process dies inside the call.
Crash(M, name, a, v) ==
  /\ pc'  = "crashed"
  /\ ub'  = TRUE
  /\ op'  = [name |-> name, arg |-> a, val |-> v, malloc |-> M.mal,
             after |-> Follows]
  /\ UNCHANGED <<list, nodes, alloc, nalloc, freedAt, ret, calls, dpre>>

\* A call returns with heap M, or, having touched freed memory, may crash.
Return(M, name, a, v) ==
  \/ Commit(M, name, a, v) /\ UNCHANGED <<pc, dpre>>
  \/ M.ub /\ Crash(M, name, a, v)

\* A read-only call returning r.
Answer(r, name, a) == Return([Heap EXCEPT !.ret = r], name, a, NULL)

\* The freed nodes ares__llist_node_claim(node) dereferences.
ClaimStale(node) ==
  IF node = NULL THEN {}
  ELSE {p \in {nodes[node].prev, nodes[node].next} : Stale(p)}

\* The heaps ares__llist_node_claim / _destroy can be entered with.
ClaimHeaps(M, node) ==
  {[Resolve(M, r) EXCEPT !.ub = ClaimStale(node) # {}] :
     r \in Aliasings(ClaimStale(node), alloc)}

\* No call is in progress or waiting to be looked at.
NoCall == [name |-> "idle", arg |-> NULL, val |-> NULL, malloc |-> "none",
           after |-> "idle"]

Init ==
  /\ list  = ZeroList
  /\ nodes = [a \in Addr |-> ZeroNode]
  /\ alloc = {}
  /\ nalloc = 0
  /\ freedAt = [a \in Addr |-> 0]
  /\ pc    = "none"
  /\ ub    = FALSE
  /\ op    = NoCall
  /\ ret   = NULL
  /\ calls = <<>>
  /\ dpre  = <<>>

\* ares__llist_create(destruct); ok = FALSE is ares_malloc returning NULL.
Create ==
  /\ pc = "none" /\ op = NoCall
  /\ \E d \in {NULL} \cup Destructors, ok \in BOOLEAN :
       /\ list' = IF ok THEN [ZeroList EXCEPT !.destruct = d] ELSE list
       /\ pc'   = IF ok THEN "ready" ELSE pc
       /\ ret'  = IF ok THEN LIST ELSE NULL
       /\ op'   = [name |-> "create", arg |-> d, val |-> NULL,
                   malloc |-> IF ok THEN "ok" ELSE "fail", after |-> Follows]
       /\ calls' = <<>>
       /\ UNCHANGED <<nodes, alloc, nalloc, freedAt, ub, dpre>>

\* The caller has looked at what its last call returned and goes on: the
\* record of that call is dropped.  The heap is left alone.
CallerContinues ==
  /\ pc \in {"none", "ready"} /\ ~ub
  /\ op # NoCall
  /\ op'    = NoCall
  /\ ret'   = NULL
  /\ calls' = <<>>
  /\ UNCHANGED <<list, nodes, alloc, nalloc, freedAt, pc, ub, dpre>>

\* The list exists, no undefined behaviour has happened yet and the caller is
\* free to make its next call.
Running == pc = "ready" /\ ~ub /\ op = NoCall

\* The arguments a caller can pass: the list or NULL, a node handle it holds
\* or NULL, a value or NULL.
ListArgs == {NULL, LIST}
NodeArgs == {NULL} \cup alloc

ReplaceDestructor ==
  /\ Running
  /\ \E l \in ListArgs, d \in {NULL} \cup Destructors :
       Return(ares__llist_replace_destructor(Heap, l, d),
              "replace_destructor", l, d)

InsertFirst ==
  /\ Running
  /\ \E l \in ListArgs, v \in Data, m \in Malloc :
       Return(ares__llist_insert_first(Heap, l, v, m), "insert_first", l, v)

\* The caller passes what ares__llist_node_claim has just returned to
\* ares__llist_insert_last(l, v).
Reinsertion(l, v) ==
  op.name = "claim" /\ op.arg # NULL /\ l = LIST /\ v = ret

InsertLast ==
  /\ pc = "ready" /\ ~ub
  /\ \E l \in ListArgs, v \in Data, m \in Malloc :
       /\ op = NoCall \/ Reinsertion(l, v)
       /\ Return(ares__llist_insert_last(Heap, l, v, m), "insert_last", l, v)

InsertBefore ==
  /\ Running
  /\ \E n \in NodeArgs, v \in Data, m \in Malloc :
       Return(ares__llist_insert_before(Heap, n, v, m), "insert_before", n, v)

\* ares__llist_insert_after(n, v) with m from ares_malloc: it reads
\* *node->next once it has a new node.
AfterCall(n, v, m) ==
  LET S == IF n = NULL \/ v = NULL \/ m = NULL THEN {}
           ELSE {p \in {nodes[n].next} : Stale(p)}
  IN  \E r \in Aliasings(S, alloc \cup {m}), g \in Garbage(S) :
        Return(ares__llist_insert_after(
                 [Resolve(Heap, r) EXCEPT !.ub = S # {}], n, v, m, g),
               "insert_after", n, v)

InsertAfter ==
  /\ Running
  /\ \E n \in NodeArgs, v \in Data, m \in Malloc : AfterCall(n, v, m)

NodeFirst ==
  /\ Running
  /\ \E l \in ListArgs : Answer(ares__llist_node_first(Heap, l), "node_first", l)

NodeLast ==
  /\ Running
  /\ \E l \in ListArgs : Answer(ares__llist_node_last(Heap, l), "node_last", l)

NodeNext ==
  /\ Running
  /\ \E n \in NodeArgs : Answer(ares__llist_node_next(Heap, n), "node_next", n)

NodePrev ==
  /\ Running
  /\ \E n \in NodeArgs : Answer(ares__llist_node_prev(Heap, n), "node_prev", n)

NodeVal ==
  /\ Running
  /\ \E n \in NodeArgs : Answer(ares__llist_node_val(Heap, n), "node_val", n)

LenOp ==
  /\ Running
  /\ \E l \in ListArgs : Answer(ares__llist_len(Heap, l), "len", l)

NodeParent ==
  /\ Running
  /\ \E n \in NodeArgs :
       Answer(ares__llist_node_parent(Heap, n), "node_parent", n)

FirstVal ==
  /\ Running
  /\ \E l \in ListArgs : Answer(ares__llist_first_val(Heap, l), "first_val", l)

LastVal ==
  /\ Running
  /\ \E l \in ListArgs : Answer(ares__llist_last_val(Heap, l), "last_val", l)

Claim ==
  /\ Running
  /\ \E n \in NodeArgs : \E M \in ClaimHeaps(Heap, n) :
       Return(ares__llist_node_claim(M, n), "claim", n, NULL)

\* The caller destroys a node right after ares__llist_replace_destructor.
AfterReplaceDestructor ==
  op.name = "replace_destructor" /\ op.arg # NULL

NodeDestroy ==
  /\ pc = "ready" /\ ~ub
  /\ op = NoCall \/ AfterReplaceDestructor
  /\ \E n \in NodeArgs : \E M \in ClaimHeaps(Heap, n) :
       Return(ares__llist_node_destroy(M, n), "destroy_node", n, NULL)

NodeReplace ==
  /\ Running
  /\ \E n \in NodeArgs, v \in Data :
       Return(ares__llist_node_replace(Heap, n, v), "replace", n, v)

\* ares__llist_destroy(list): the argument check and the entry to the loop.
Destroy ==
  /\ Running
  /\ \E l \in ListArgs :
       /\ op'    = [name |-> "destroy", arg |-> l, val |-> NULL,
                    malloc |-> "none", after |-> Follows]
       /\ ret'   = NULL
       /\ calls' = <<>>
       /\ pc'    = IF l = NULL THEN pc ELSE "destroying"
       /\ dpre'  = IF l = NULL THEN dpre
                   ELSE <<[fwd |-> Fwd, ns |-> nodes, al |-> alloc,
                           destruct |-> list.destruct, cnt |-> list.cnt]>>
       /\ UNCHANGED <<list, nodes, alloc, nalloc, freedAt, ub>>

\* One iteration of the loop: node = ares__llist_node_first(list) is not NULL
\* and is destroyed.
DestroyIter ==
  /\ pc = "destroying" /\ ~ub
  /\ ares__llist_node_first(Heap, LIST) # NULL
  /\ LET node == ares__llist_node_first(Heap, LIST) IN
     \E M \in ClaimHeaps([Heap EXCEPT !.calls = calls], node) :
       Return(ares__llist_node_destroy(M, node), "destroy", LIST, NULL)

\* The loop ends on a NULL head and the list object is freed.
DestroyFree ==
  /\ pc = "destroying" /\ ~ub
  /\ ares__llist_node_first(Heap, LIST) = NULL
  /\ pc' = "freed"
  /\ UNCHANGED <<list, nodes, alloc, nalloc, freedAt, ub, op, ret, calls, dpre>>

\* A caller that passes the list and node handles it holds, hands a value it
\* has not used before to every insertion, and whose allocations succeed
\* MaxFresh times.  The k-th node allocated holds the value k until it is
\* freed.
MallocFresh == IF nalloc < MaxFresh THEN {nalloc + 1} ELSE {}
Fresh == nalloc + 1

FreshInsertLast ==
  /\ Running
  /\ \E m \in MallocFresh :
       Return(ares__llist_insert_last(Heap, LIST, Fresh, m),
              "insert_last", LIST, Fresh)

FreshInsertBefore ==
  /\ Running
  /\ \E n \in alloc, m \in MallocFresh :
       Return(ares__llist_insert_before(Heap, n, Fresh, m),
              "insert_before", n, Fresh)

FreshInsertAfter ==
  /\ Running
  /\ \E n \in alloc, m \in MallocFresh : AfterCall(n, Fresh, m)

\* The loop of ares__llist_destroy(list) when list->head is a freed node that
\* no allocated node has replaced: ares__llist_node_destroy reads the freed
\* node, frees it a second time and, if the process gets that far, invokes
\* the destructor on whatever it read as node->data.  Not followed further.
DestroyStale ==
  /\ pc = "destroying" /\ ub
  /\ Stale(ares__llist_node_first(Heap, LIST))
  /\ \/ Crash(Heap, "destroy", LIST, NULL)
     \/ \E v \in 0..nalloc :
          /\ calls' = IF v # NULL /\ list.destruct # NULL
                      THEN Append(calls, <<list.destruct, v>>) ELSE calls
          /\ pc' = "astray"
          /\ UNCHANGED <<list, nodes, alloc, nalloc, freedAt, ub, op, ret, dpre>>

\* The calls that can change the list.
NextCore ==
  \/ Create
  \/ CallerContinues
  \/ ReplaceDestructor
  \/ InsertFirst
  \/ InsertLast
  \/ InsertBefore
  \/ InsertAfter
  \/ Claim
  \/ NodeDestroy
  \/ NodeReplace
  \/ Destroy
  \/ DestroyIter
  \/ DestroyFree

\* The read-only accessors.
NextQuery ==
  \/ NodeFirst
  \/ NodeLast
  \/ NodeNext
  \/ NodePrev
  \/ NodeVal
  \/ LenOp
  \/ NodeParent
  \/ FirstVal
  \/ LastVal

Next == NextCore \/ NextQuery

\* ---------------------------------------------------------------- sanity
\* Before the first access to freed memory, head and tail are NULL or
\* allocated, which is why the accessors above never read a freed cell.
BoundaryLive ==
  ~ub => /\ list.head \in {NULL} \cup alloc
         /\ list.tail \in {NULL} \cup alloc

\* The whole interface.
Spec == Init /\ [][Next]_vars

\* The interface without the read-only accessors, which leave list, nodes and
\* alloc as they are: the same heaps are reachable as under Spec.
SpecCore == Init /\ [][NextCore]_vars

\* The calls that link and remove nodes, made by the caller with fresh values.
NextFresh ==
  \/ Create
  \/ CallerContinues
  \/ FreshInsertLast
  \/ FreshInsertBefore
  \/ FreshInsertAfter
  \/ Claim
  \/ NodeDestroy
  \/ Destroy
  \/ DestroyIter
  \/ DestroyFree
  \/ DestroyStale

SpecFresh == Init /\ [][NextFresh]_vars

\* ---------------------------------------------------------------- claims
Range(s) == {s[i] : i \in 1..Len(s)}
Pos(s, x) == CHOOSE i \in 1..Len(s) : s[i] = x
\* s with x put in front of its i-th element.
InsertSeq(s, i, x) == SubSeq(s, 1, i - 1) \o <<x>> \o SubSeq(s, i, Len(s))
Inserts == {"insert_first", "insert_last", "insert_before", "insert_after"}
\* The list object exists.
Exists == pc \in {"ready", "destroying"}

\* C1: as long as no freed memory has been touched, len(list) is the number
\* of nodes met by starting at head and following next until NULL.
C1_LenIsWalkLength ==
  (Exists /\ ~ub) => ares__llist_len(Heap, LIST) = Len(Fwd)

\* C2: insert_before(node, v) on a node that the walk from head meets and that
\* is not the head puts the new node, holding v, right in front of node in
\* that walk and leaves the rest of the walk as it was.
C2_InsertBeforeOrder ==
  [][(/\ op'.name = "insert_before"
      /\ op'.malloc = "ok"
      /\ ~ub'
      /\ op'.arg \in Range(Fwd)
      /\ op'.arg # list.head)
     => (/\ Fwd' = InsertSeq(Fwd, Pos(Fwd, op'.arg), ret')
         /\ nodes'[ret'].data = op'.val)]_vars

\* C3: insert_after(node, v) on a node that the walk from head meets and that
\* is not the tail puts the new node, holding v, right behind node in that
\* walk and leaves the rest of the walk as it was.
C3_InsertAfterOrder ==
  [][(/\ op'.name = "insert_after"
      /\ op'.malloc = "ok"
      /\ ~ub'
      /\ op'.arg \in Range(Fwd)
      /\ op'.arg # list.tail)
     => (/\ Fwd' = InsertSeq(Fwd, Pos(Fwd, op'.arg) + 1, ret')
         /\ nodes'[ret'].data = op'.val)]_vars

\* C4: when destroy(list) has run to its end on a list with a destructor and
\* without touching freed memory, the destructor has been invoked once for
\* each node that was allocated at entry and held a value, in the order of
\* the walk from head.
C4_DestroyCallsEveryNode ==
  (pc = "freed" /\ ~ub /\ dpre[1].destruct # NULL) =>
    LET d   == dpre[1]
        due == SelectSeq(d.fwd, LAMBDA a : d.ns[a].data # NULL)
    IN  /\ {a \in d.al : d.ns[a].data # NULL} = Range(due)
        /\ calls = [i \in 1..Len(due) |-> <<d.destruct, d.ns[due[i]].data>>]

\* C5: as long as no freed memory has been touched, head is NULL exactly when
\* tail is NULL and exactly when the count is 0.
C5_EmptyIffZero ==
  (Exists /\ ~ub) =>
    /\ (list.head = NULL) <=> (list.tail = NULL)
    /\ (list.head = NULL) <=> (list.cnt = 0)
\* After the step, the walks from head and from tail do not meet node n.
Unlinked(n) == n \notin Range(Fwd') /\ n \notin Range(Bwd')

\* C6: claim(node) on a node that the walk from head meets invokes no
\* destructor, returns the value stored in the node, frees the node, takes it
\* out of the walks from head and from tail and lowers the count by one.
C6_ClaimUnlinks ==
  [][(/\ op'.name = "claim"
      /\ op'.arg \in Range(Fwd)
      /\ ~ub')
     => (/\ calls' = <<>>
         /\ ret' = nodes[op'.arg].data
         /\ list'.cnt = list.cnt - 1
         /\ op'.arg \notin alloc'
         /\ Unlinked(op'.arg))]_vars

\* C7: destroy(node) on a node that the walk from head meets invokes the
\* list's destructor once, on the node's value, when both are non-null, and
\* nothing otherwise; either way the node is freed and out of the walks from
\* head and from tail.
C7_NodeDestroyRemoves ==
  [][(/\ op'.name = "destroy_node"
      /\ op'.arg \in Range(Fwd)
      /\ ~ub')
     => (/\ calls' = IF list.destruct # NULL /\ nodes[op'.arg].data # NULL
                     THEN << <<list.destruct, nodes[op'.arg].data>> >>
                     ELSE <<>>
         /\ op'.arg \notin alloc'
         /\ Unlinked(op'.arg))]_vars

\* C8: an insertion whose ares_malloc returns NULL returns NULL and leaves
\* the list and every node as they were.
C8_AllocFailureNoChange ==
  [][(op'.name \in Inserts /\ op'.malloc = "fail")
     => (/\ ret' = NULL
         /\ calls' = <<>>
         /\ UNCHANGED <<list, nodes, alloc, pc>>)]_vars

\* An insert_after in the middle of a list of two or more has failed to
\* allocate.
C8_Witness ==
  /\ op.name = "insert_after" /\ op.malloc = "fail" /\ ret = NULL
  /\ list.cnt >= 2 /\ op.arg \in alloc /\ op.arg # list.tail

\* The call o lacks an argument it requires.
NullCall(o) ==
  \/ o.name \in Inserts /\ (o.arg = NULL \/ o.val = NULL)
  \/ /\ o.name \in {"node_first", "node_last", "node_next", "node_prev",
                    "node_val", "node_parent", "first_val", "last_val", "len",
                    "claim", "destroy_node", "destroy", "replace",
                    "replace_destructor"}
     /\ o.arg = NULL

\* C9: a call that lacks a required argument changes nothing, invokes no
\* destructor and returns NULL (0 for len).
C9_NullArgumentNoOp ==
  [][NullCall(op')
     => (/\ ret' = NULL
         /\ calls' = <<>>
         /\ UNCHANGED <<list, nodes, alloc, pc>>)]_vars

\* insert_last with a NULL value has returned on a list that holds nodes and
\* has a destructor.
C9_Witness ==
  /\ op.name = "insert_last" /\ op.arg = LIST /\ op.val = NULL
  /\ list.cnt >= 1 /\ list.destruct # NULL /\ nalloc < MaxNodes

\* C10: insert_before(head_of(list), v) leaves the list, the nodes and the
\* return value exactly as insert_first(list, v) would have in the same
\* state with the same answer from ares_malloc.
C10_BeforeHeadIsInsertFirst ==
  [][(/\ op'.name = "insert_before"
      /\ op'.arg # NULL
      /\ op'.arg = list.head
      /\ op'.val # NULL)
     => LET M == ares__llist_insert_first(
                   Heap, LIST, op'.val,
                   IF op'.malloc = "ok" THEN nalloc + 1 ELSE NULL)
        IN  /\ list' = [head |-> M.head, tail |-> M.tail,
                        destruct |-> M.destruct, cnt |-> M.cnt]
            /\ nodes' = M.ns
            /\ alloc' = M.al
            /\ ret'   = M.ret]_vars

\* insert_before on the head has put a new node in front of it.
C10_Witness ==
  /\ op.name = "insert_before" /\ op.malloc = "ok"
  /\ list.head = ret /\ nodes[ret].next = op.arg /\ nodes[ret].data = op.val
  /\ list.cnt >= 2

\* The list object and the walk from head of the heap M.
ListOf(M) == [head |-> M.head, tail |-> M.tail, destruct |-> M.destruct,
              cnt |-> M.cnt]
FwdOf(M) == Walk(M.ns, M.head, "next", MaxFresh + 1)

\* C11: insert_after(tail_of(list), v) that gets a node and touches no freed
\* memory leaves head, tail, count and the values met by the walk from head
\* exactly as insert_last(list, v) would have left them in the same state.
C11_AfterTailIsInsertLast ==
  [][(/\ op'.name = "insert_after"
      /\ op'.arg # NULL
      /\ op'.arg = list.tail
      /\ op'.val # NULL
      /\ op'.malloc = "ok"
      /\ ~ub')
     => LET M == ares__llist_insert_last(Heap, LIST, op'.val, nalloc + 1)
        IN  /\ list' = ListOf(M)
            /\ ValsOf(nodes', Fwd') = ValsOf(M.ns, FwdOf(M))]_vars

\* C12: when claim or destroy(node) removes the head of a list whose walk
\* from head ends at its tail, node_first then returns the node that came
\* second in that walk (NULL if there was none); when it removes the tail,
\* node_last then returns the node that came last but one (NULL if none).
C12_NewBoundaryAfterRemoval ==
  [][(/\ op'.name \in {"claim", "destroy_node"}
      /\ op'.arg # NULL
      /\ ~ub'
      /\ Fwd # <<>>
      /\ Fwd[Len(Fwd)] = list.tail)
     => (/\ op'.arg = list.head =>
              ares__llist_node_first(Heap, LIST)'
                = IF Len(Fwd) >= 2 THEN Fwd[2] ELSE NULL
         /\ op'.arg = list.tail =>
              ares__llist_node_last(Heap, LIST)'
                = IF Len(Fwd) >= 2 THEN Fwd[Len(Fwd) - 1] ELSE NULL)]_vars

C14_ReplaceFrame ==
  [][(op'.name = "replace" /\ op'.arg # NULL)
     => (/\ calls' = IF list.destruct # NULL
                     THEN << <<list.destruct, nodes[op'.arg].data>> >>
                     ELSE <<>>
         /\ nodes' = [nodes EXCEPT ![op'.arg].data = op'.val]
         /\ list' = list
         /\ alloc' = alloc)]_vars

\* replace has put a new value into a node of a list of two or more and the
\* destructor has been given the old one.
C14_Witness ==
  /\ op.name = "replace" /\ op.arg \in alloc /\ op.val # NULL
  /\ nodes[op.arg].data = op.val
  /\ Len(calls) = 1 /\ calls[1][2] \notin {NULL, op.val}
  /\ list.cnt >= 2

\* C15: replace_destructor(list, d) invokes no destructor, stores d and
\* changes nothing else; the stored destructor changes in no other call; and
\* every destructor invocation made by destroy(node), replace or
\* destroy(list) is one of the destructor stored when the call was made, so
\* there is none when that is NULL.
C15_ReplaceDestructorFrame ==
  [][/\ (op'.name = "replace_destructor" /\ op'.arg # NULL)
         => (/\ calls' = <<>>
             /\ list' = [list EXCEPT !.destruct = op'.val]
             /\ nodes' = nodes
             /\ alloc' = alloc)
     /\ (Exists /\ list'.destruct # list.destruct)
         => op'.name = "replace_destructor"
     /\ (op'.name \in {"destroy_node", "replace", "destroy"})
         => (/\ \A i \in 1..Len(calls') : calls'[i][1] = list.destruct
             /\ list.destruct = NULL => calls' = <<>>)]_vars

\* destroy(node), called right after replace_destructor gave the list a
\* destructor, has invoked that destructor on the node's value.
C15_Witness ==
  /\ op.name = "destroy_node" /\ op.after = "replace_destructor"
  /\ op.arg # NULL /\ op.arg \notin alloc
  /\ list.destruct # NULL /\ list.cnt >= 1
  /\ Len(calls) = 1 /\ calls[1][1] = list.destruct /\ calls[1][2] # NULL

\* C16: as long as no freed memory has been touched, the head of a non-empty
\* list has no prev and its tail has no next.
C16_BoundaryLinksNull ==
  (Exists /\ ~ub) =>
    /\ list.head # NULL => ares__llist_node_prev(Heap, list.head) = NULL
    /\ list.tail # NULL => ares__llist_node_next(Heap, list.tail) = NULL

\* C17: as long as no freed memory has been touched, every allocated node is
\* the prev of its next and the next of its prev, and the walk from tail by
\* prev is the walk from head by next, reversed.
C17_LinksMutuallyConsistent ==
  (Exists /\ ~ub) =>
    /\ \A n \in alloc :
         /\ nodes[n].next # NULL => nodes[nodes[n].next].prev = n
         /\ nodes[n].prev # NULL => nodes[nodes[n].prev].next = n
    /\ Bwd = Reverse(Fwd)

\* C18: once the list exists no call reads or writes a freed node, and head,
\* tail and the prev and next of every allocated node are NULL or an
\* allocated node.
C18_NoFreedNodeReferenced ==
  (pc # "none") =>
    /\ ~ub
    /\ list.head \in {NULL} \cup alloc
    /\ list.tail \in {NULL} \cup alloc
    /\ \A n \in alloc : /\ nodes[n].prev \in {NULL} \cup alloc
                        /\ nodes[n].next \in {NULL} \cup alloc

\* The values held by the nodes that were allocated when destroy(list) was
\* entered.
HeldAtEntry == {dpre[1].ns[n].data : n \in dpre[1].al}

\* C19: with every inserted value distinct, each value destroy(list) hands
\* to the destructor was held by a node when destroy(list) was entered, so
\* it has not been released by destroy(node) or handed back by claim before,
\* and is handed to the destructor once.
C19_DestructorOncePerValue ==
  (pc \in {"destroying", "freed", "astray"}) =>
    \A i \in 1..Len(calls) :
      /\ calls[i][2] \in HeldAtEntry
      /\ \A j \in 1..Len(calls) : calls[j][2] = calls[i][2] => j = i

\* C20: when destroy(list) has run to its end without touching freed memory,
\* its loop has destroyed as many nodes as len(list) was at entry, head and
\* tail are NULL, the count is 0 and no node is left allocated.
C20_DestroyEmptiesList ==
  (pc = "freed" /\ ~ub) =>
    /\ Cardinality(dpre[1].al) - Cardinality(alloc) = dpre[1].cnt
    /\ list.head = NULL /\ list.tail = NULL
    /\ ares__llist_len(Heap, LIST) = 0
    /\ alloc = {}
====
